---- MODULE Spec2Model ----
(***************************************************************************)
(* Model of the HTTP core of wechatpay-go (src/client.go): client.Do,      *)
(* client.do, the certificate-install workflow, client.VerifySignature,    *)
(* client.onceDownloadCertificates and the secrets cache, together with    *)
(* the header intake of PayNotification.ParseHttpRequest (src/notify.go).  *)
(*                                                                         *)
(* One goroutine issues top-level calls one after the other.  A call is a  *)
(* stack of Do frames: the frame of the caller's request and, while its    *)
(* verification refreshes the certificates, the frame of the cert-fetch    *)
(* sub-call.  The platform's answers are chosen by the environment.        *)
(***************************************************************************)
EXTENDS Integers, Sequences, FiniteSets, TLC

(***************************************************************************)
(* Bounds of the model.                                                    *)
(***************************************************************************)
\* the configured refresh interval ranges over -1 .. MaxRefresh
MaxRefresh == 1
\* deepest stack of Do frames the model follows
MaxDepth == 3

(***************************************************************************)
(* strconv.ParseInt(ts, 10, 64) and strconv.FormatInt(i, 10).  A header    *)
(* value is a sequence of one-character strings; an int64 is a sign and a  *)
(* magnitude written as decimal digits without leading zeros, so that the  *)
(* 64-bit range is kept.                                                   *)
(***************************************************************************)
DigitChars == <<"0", "1", "2", "3", "4", "5", "6", "7", "8", "9">>

IsDigit(c) == \E i \in 1..10 : DigitChars[i] = c

DigitOf(c) == (CHOOSE i \in 1..10 : DigitChars[i] = c) - 1

\* magnitude of math.MaxInt64 = 1<<63 - 1
MaxInt64 == <<9,2,2,3,3,7,2,0,3,6,8,5,4,7,7,5,8,0,7>>

\* magnitude of math.MinInt64 = -1<<63
MinInt64 == <<9,2,2,3,3,7,2,0,3,6,8,5,4,7,7,5,8,0,8>>

RECURSIVE StripZeros(_)
StripZeros(d) ==
    IF Len(d) > 1 /\ d[1] = 0 THEN StripZeros(Tail(d)) ELSE d

RECURSIVE LexLeq(_, _)
LexLeq(a, b) ==
    IF a = <<>> THEN TRUE
    ELSE IF a[1] # b[1] THEN a[1] < b[1]
    ELSE LexLeq(Tail(a), Tail(b))

\* a <= b for magnitudes without leading zeros
MagLeq(a, b) ==
    \/ Len(a) < Len(b)
    \/ Len(a) = Len(b) /\ LexLeq(a, b)

Int64(neg, mag) == [neg |-> neg, mag |-> mag]

Zero64 == Int64(FALSE, <<0>>)

\* strconv.ParseInt(s, 10, 64): [err, val]
ParseInt(s) ==
    LET signed == Len(s) > 0 /\ s[1] \in {"+", "-"}
        neg    == Len(s) > 0 /\ s[1] = "-"
        body   == IF signed THEN Tail(s) ELSE s
    IN  IF body = <<>> \/ \E i \in 1..Len(body) : ~IsDigit(body[i])
        THEN [err |-> "syntax", val |-> Zero64]
        ELSE LET mag == StripZeros([i \in 1..Len(body) |-> DigitOf(body[i])])
             IN  IF ~MagLeq(mag, IF neg THEN MinInt64 ELSE MaxInt64)
                 THEN [err |-> "range", val |-> Zero64]
                 ELSE [err |-> "nil",
                       val |-> Int64(neg /\ mag # <<0>>, mag)]

\* strconv.FormatInt(v, 10)
FormatInt(v) ==
    LET digits == [i \in 1..Len(v.mag) |-> DigitChars[v.mag[i] + 1]]
    IN  IF v.neg THEN <<"-">> \o digits ELSE digits

(***************************************************************************)
(* Values exchanged with the platform.                                     *)
(***************************************************************************)
\* the nil *rsa.PublicKey; the other keys are named "K1", "K2"
NoKey == "nil"

\* certificate serial numbers
Serials == {"S1", "S2"}

\* c.config.opts.refreshTime, fixed at construction (CertRefreshTime)
RefreshTimes == -1 .. MaxRefresh

\* an entry of CertificatesResponse.Certificates: the serial, the key of the
\* certificate inside the encrypted blob, and what is wrong with the blob
Certificate(serial, key, fault) ==
    [SerialNo |-> serial, key |-> key, fault |-> fault]

Cert1 == Certificate("S1", "K1", "ok")

Cert2 == Certificate("S2", "K2", "ok")

\* a blob that AES-256-GCM does not authenticate
CertBadCipher == Certificate("S2", NoKey, "cipher")

\* the "data" arrays the platform answers with
CertLists ==
    { <<>>, <<Cert1>>, <<Cert1, Cert2>>, <<Cert1, CertBadCipher>> }

\* a body: nothing, bytes that are no JSON, or a JSON object with the
\* members the decoders look at ("status", "code", "message", "data")
Body(kind, hasStatus, status, code, message, data) ==
    [kind |-> kind, hasStatus |-> hasStatus, status |-> status,
     code |-> code, message |-> message, data |-> data]

EmptyBody == Body("empty", FALSE, 0, "", "", <<>>)

NullBody == Body("null", FALSE, 0, "", "", <<>>)

InvalidBody == Body("invalid", FALSE, 0, "", "", <<>>)

ObjectBody == Body("object", FALSE, 0, "", "", <<>>)

CertBody(list) == Body("object", FALSE, 0, "", "", list)

ErrorBody == Body("object", FALSE, 0, "PARAM_ERROR", "bad parameter", <<>>)

ErrorBodyWithStatus ==
    Body("object", TRUE, 200, "PARAM_ERROR", "bad parameter", <<>>)

\* the error value of the package: nil, an *Error (kind "http"), or an
\* error of another package
Err(kind, status, code, message) ==
    [kind |-> kind, Status |-> status, Code |-> code, Message |-> message]

Nil == Err("nil", 0, "", "")

Fail(kind) == Err(kind, 0, "", "")

\* json.Unmarshal(message, e) with e := &Error{Status: status}
UnmarshalError(message, status) ==
    IF message.kind \in {"empty", "invalid"}
    THEN [err |-> Fail("json"), e |-> Nil]
    ELSE IF message.kind = "null"
    THEN [err |-> Nil, e |-> Err("http", status, "", "")]
    ELSE [err |-> Nil,
          e   |-> Err("http",
                      IF message.hasStatus THEN message.status ELSE status,
                      message.code, message.message)]

\* json.Unmarshal(result.Body, resp) with resp := &CertificatesResponse{}
UnmarshalCertificates(body) ==
    IF body.kind \in {"empty", "invalid"}
    THEN [err |-> Fail("json"), Certificates |-> <<>>]
    ELSE [err |-> Nil, Certificates |-> body.data]

\* the values a caller passes as req: no argument, an untyped nil, a nil
\* pointer of a request type, a request value, a value json cannot encode
ReqValues == {"absent", "nil", "typednil", "value", "unsupported"}

\* json.Marshal(req[0])
JsonMarshal(v) ==
    IF v = "unsupported" THEN [err |-> Fail("marshal"), buffer |-> EmptyBody]
    ELSE IF v = "typednil" THEN [err |-> Nil, buffer |-> NullBody]
    ELSE [err |-> Nil, buffer |-> ObjectBody]

Methods == {"GET", "POST"}

\* a URL string, by what url.Parse makes of it
Url(valid, host, path, query) ==
    [valid |-> valid, Host |-> host, Path |-> path, RawQuery |-> query]

\* c.config.opts.CertUrl
CertUrl == Url(TRUE, "api.mch.weixin.qq.com", "/v3/certificates", "")

\* the same path with a query
CertUrlQuery == Url(TRUE, "api.mch.weixin.qq.com", "/v3/certificates", "a=1")

\* "https:\n//api.mch.weixin.qq.com/v3/certificates"
BadUrl == Url(FALSE, "", "", "")

Urls == {CertUrl, CertUrlQuery, BadUrl}

(***************************************************************************)
(* The secrets cache: s.all and s.deadline; t is time.Now().               *)
(***************************************************************************)
Secrets(all, deadline) == [all |-> all, deadline |-> deadline]

\* len(s.all)
LenAll(s) == Cardinality({k \in Serials : s.all[k] # NoKey})

\* an isUpgrade that looks at the deadline alone
isUpgradeDeadlineOnly(s, t) == s.deadline < t

isUpgrade(s, t) ==
    IF s.deadline < t THEN TRUE ELSE LenAll(s) = 0

\* an add that puts the entry in a map of its own
addReplacing(s, key, val, d, t) ==
    Secrets([k \in Serials |-> IF k = key THEN val ELSE NoKey], t + d)

add(s, key, val, d, t) ==
    Secrets([s.all EXCEPT ![key] = val], t + d)

get(s, key) == IF key \in DOMAIN s.all THEN s.all[key] ELSE NoKey

clear(t) == Secrets([k \in Serials |-> NoKey], t)

(***************************************************************************)
(* Signatures.  A signature is the key that made it and the bytes it was   *)
(* made over; it verifies under that key over those bytes and no others.   *)
(***************************************************************************)
Sig(key, plain) == [key |-> key, plain |-> plain]

\* the zero Result.Signature
NoSig == Sig(NoKey, <<>>)

\* ResponseSignature.Marshal: Timestamp LF Nonce LF Body LF
ResponseMarshal(respSign) ==
    <<FormatInt(respSign.Timestamp), respSign.Nonce, respSign.Body>>

\* sign.VerifySHA256WithRSA(publicKey, signature, plain)
VerifySHA256WithRSA(publicKey, signature, plain) ==
    IF signature.key = NoKey THEN Fail("base64")
    ELSE IF signature.key = publicKey /\ signature.plain = plain THEN Nil
    ELSE Fail("verify")

\* sign.VerifySignature(publicKey, respSign, signature)
signVerifySignature(publicKey, respSign, signature) ==
    VerifySHA256WithRSA(publicKey, signature, ResponseMarshal(respSign))

(***************************************************************************)
(* The platform's answers.                                                 *)
(***************************************************************************)
Response(status, ts, nonce, serial, signature, body, readErr) ==
    [StatusCode |-> status, Timestamp |-> ts, Nonce |-> nonce,
     Serial |-> serial, Signature |-> signature, Body |-> body,
     readErr |-> readErr]

NoResponse == Response(0, <<>>, "", "", NoSig, EmptyBody, FALSE)

\* values of the Wechatpay-Timestamp header: absent or empty, a decimal
\* number, no number, and 1<<63
TsHeaders ==
    { <<>>, <<"1", "6">>, <<"x", "x", "x">>,
      <<"9","2","2","3","3","7","2","0","3","6","8","5","4","7","7","5","8","0","8">> }

\* the timestamp text the platform signs for a header: the header as sent
\* and, for an absent header, the number the client takes it for
SignedTs(ts) == IF ts = <<>> THEN <<"0">> ELSE ts

\* the serial a response names and the key that signed it
Signers == {<<"S1", "K1">>, <<"S2", "K2">>, <<"S1", "K2">>}

StatusOK == 200

StatusNoContent == 204

StatusMultipleChoices == 300

StatusInternalServerError == 500

\* the bodies of the answers to a cert-fetch, and of the other answers,
\* whose bodies the core does not decode
CertBodies == {InvalidBody} \cup {CertBody(l) : l \in CertLists}

OtherBodies == {InvalidBody, ObjectBody}

\* answers with status 200 that client.do reads to the end
OkResponses(bodies) ==
    { Response(StatusOK, ts, "N", sk[1],
               Sig(sk[2], <<SignedTs(ts), "N", body>>), body, FALSE) :
        ts \in {<<>>, <<"1", "6">>}, sk \in Signers, body \in bodies }

\* answers with status 200 whose timestamp header does not parse
BadHeaderResponses ==
    { Response(StatusOK, ts, "N", "S1",
               Sig("K1", <<ts, "N", CertBody(<<Cert1>>)>>),
               CertBody(<<Cert1>>), FALSE) :
        ts \in TsHeaders \ {<<>>, <<"1", "6">>} }

\* answers whose body cannot be read to the end
ReadErrResponses ==
    { Response(st, <<"1", "6">>, "N", "S1", NoSig, InvalidBody, TRUE) :
        st \in {StatusOK, StatusInternalServerError} }

NoContentResponses ==
    { Response(StatusNoContent, ts, "N", sk[1],
               Sig(sk[2], <<SignedTs(ts), "N", EmptyBody>>), EmptyBody, FALSE) :
        ts \in {<<"1", "6">>}, sk \in Signers }
        \cup { Response(StatusNoContent, <<"1", "6">>, "N", "S1",
                         Sig("K1", <<<<"1", "6">>, "N", EmptyBody>>),
                         ObjectBody, FALSE) }

\* answers with a status of 300 and above
ErrorResponses ==
    { Response(st, <<>>, "", "", NoSig, body, FALSE) :
        st \in {StatusMultipleChoices, StatusInternalServerError},
        body \in {EmptyBody, InvalidBody, ErrorBody, ErrorBodyWithStatus} }

\* an answer with status 200 and none of the Wechatpay-* headers
HeaderlessResponse == Response(StatusOK, <<>>, "", "", NoSig, ObjectBody, FALSE)

\* what the platform may answer to a request: certificates to a GET of the
\* certificates path, something else to any other request
Responses(method, url) ==
    OkResponses(IF method = "GET" /\ url.Path = "/v3/certificates"
                THEN CertBodies ELSE OtherBodies)
        \cup BadHeaderResponses \cup ReadErrResponses
        \cup NoContentResponses \cup ErrorResponses
        \cup {HeaderlessResponse}

(***************************************************************************)
(* Result, RequestSignature and the frame of one client.Do call.           *)
(***************************************************************************)
Result(body, timestamp, nonce, signature, serialNo, err) ==
    [Body |-> body, Timestamp |-> timestamp, Nonce |-> nonce,
     Signature |-> signature, SerialNo |-> serialNo, Err |-> err]

\* &Result{Err: err}
ErrResult(err) == Result(EmptyBody, Zero64, "", NoSig, "", err)

RequestSignature(method, url, body) ==
    [Method |-> method, Url |-> url, Body |-> body]

\* the steps of a call, in the words of the specification
StepNames == <<"sign", "send", "receive", "install", "verify">>

\* a call of client.Do: its position, whether its context carries
\* ctxKeyOnceDlCert, its arguments, reqSign, the bytes put on the wire, the
\* answer, the Result, and a record of what it did: the steps it ran,
\* whether it is a cert-fetch issued with an empty cache, the cert-fetch
\* sub-calls its verification issued, whether the cache was stale when its
\* verification looked, how the sub-call and the sub-call's signature check
\* ended, and the key the signature was checked against with the outcome of
\* that check
Frame(pc, ctxOnce, reqv, reqSign, result) ==
    [pc |-> pc, ctxOnce |-> ctxOnce, reqv |-> reqv, reqSign |-> reqSign,
     wire |-> EmptyBody, sent |-> 0, resp |-> NoResponse, result |-> result,
     steps |-> <<>>, issuedEmpty |-> FALSE, nrefresh |-> 0,
     stale |-> "unset", subErr |-> "unset", subVerified |-> "unset",
     usedKey |-> NoKey, verified |-> "unset"]

(***************************************************************************)
(* The pieces of client.Do.                                                *)
(***************************************************************************)
\* client.Do, step 1: the request buffer, or the error of json.Marshal
DoSerialize(method, reqv) ==
    IF reqv # "absent" /\ method # "GET" /\ reqv # "nil"
    THEN JsonMarshal(reqv)
    ELSE [err |-> Nil, buffer |-> EmptyBody]

\* client.Do with the extra workflows run before the answer is read
NextPcInstallFirst(pc) ==
    CASE pc = "sign"    -> "send"
      [] pc = "send"    -> "extra"
      [] pc = "extra"   -> "receive"
      [] pc = "receive" -> "verify"
      [] OTHER          -> "done"

\* a client that sends the request again after it has read an answer
NextPcRetry(pc) ==
    CASE pc = "sign"    -> "send"
      [] pc = "send"    -> "receive"
      [] pc = "receive" -> "send"
      [] pc = "extra"   -> "verify"
      [] OTHER          -> "done"

\* client.Do runs its steps in this order: do (sign, send, receive), the
\* extra workflows, VerifySignature
NextPc(pc) ==
    CASE pc = "sign"    -> "send"
      [] pc = "send"    -> "receive"
      [] pc = "receive" -> "extra"
      [] pc = "extra"   -> "verify"
      [] OTHER          -> "done"

\* client.do, the branch of a status of 300 and above
doReadError(resp) ==
    IF resp.readErr THEN ErrResult(Fail("read"))
    ELSE LET u == UnmarshalError(resp.Body, resp.StatusCode)
         IN  IF u.err # Nil THEN ErrResult(u.err) ELSE ErrResult(u.e)

\* client.do, step 5: the headers and the body
doReadOk(resp) ==
    LET ts == resp.Timestamp
        p  == IF ts # <<>> THEN ParseInt(ts)
              ELSE [err |-> "nil", val |-> Zero64]
    IN  IF p.err # "nil" THEN ErrResult(Fail("strconv"))
        ELSE IF resp.StatusCode # StatusNoContent /\ resp.readErr
        THEN ErrResult(Fail("read"))
        ELSE Result(IF resp.StatusCode # StatusNoContent
                    THEN resp.Body ELSE EmptyBody,
                    p.val, resp.Nonce, resp.Signature, resp.Serial, Nil)

\* client.do with a status of 400 and above taken for the error threshold
doReadFrom400(resp) ==
    IF resp.StatusCode >= 400 THEN doReadError(resp) ELSE doReadOk(resp)

\* client.do from the status check on: the Result made of the answer
doRead(resp) ==
    IF resp.StatusCode >= StatusMultipleChoices
    THEN doReadError(resp) ELSE doReadOk(resp)

\* a selection of the workflows by the path of the URL alone
getExtraWorkflowsByPath(reqSign) ==
    IF reqSign.Method = "GET" /\ reqSign.Url.Path = CertUrl.Path
    THEN <<"cert">> ELSE <<>>

\* a selection of the cert workflow for every GET
getExtraWorkflowsAnyGet(reqSign) ==
    IF reqSign.Method = "GET" THEN <<"cert">> ELSE <<>>

\* the names of extraWorkflowsMapping that apply to the request
getExtraWorkflows(reqSign) ==
    IF reqSign.Method = "GET" /\ reqSign.Url = CertUrl
    THEN <<"cert">> ELSE <<>>

\* the loop of upgradeCertWorkflow: [err, secrets]
RECURSIVE installCertificates(_, _, _, _)
installCertificates(s, certs, d, t) ==
    IF certs = <<>> THEN [err |-> Nil, secrets |-> s]
    ELSE LET cert == Head(certs)
         IN  IF cert.fault = "cipher"
             THEN [err |-> Fail("decrypt"), secrets |-> s]
             ELSE IF cert.fault = "pem"
             THEN [err |-> Fail("pem"), secrets |-> s]
             ELSE installCertificates(add(s, cert.SerialNo, cert.key, d, t),
                                      Tail(certs), d, t)

\* upgradeCertWorkflow that decodes the answer and stores no key
upgradeCertWorkflowNoInstall(s, result, d, t) ==
    [err |-> UnmarshalCertificates(result.Body).err, secrets |-> s]

\* an upgradeCertWorkflow that puts the cache back when a certificate fails
upgradeCertWorkflowRollback(s, result, d, t) ==
    LET resp == UnmarshalCertificates(result.Body)
        w    == installCertificates(s, resp.Certificates, d, t)
    IN  IF resp.err # Nil THEN [err |-> resp.err, secrets |-> s]
        ELSE IF w.err # Nil THEN [err |-> w.err, secrets |-> s]
        ELSE w

\* an upgradeCertWorkflow that starts from a cache without keys
upgradeCertWorkflowReplacing(s, result, d, t) ==
    LET resp == UnmarshalCertificates(result.Body)
    IN  IF resp.err # Nil THEN [err |-> resp.err, secrets |-> s]
        ELSE installCertificates(Secrets(clear(t).all, s.deadline),
                                 resp.Certificates, d, t)

\* client.upgradeCertWorkflow: [err, secrets]
upgradeCertWorkflow(s, result, d, t) ==
    LET resp == UnmarshalCertificates(result.Body)
    IN  IF resp.err # Nil THEN [err |-> resp.err, secrets |-> s]
        ELSE installCertificates(s, resp.Certificates, d, t)

\* onceDownloadCertificates that never issues the sub-call
onceDownloadIssuesNever(ctxOnce, s, t) == FALSE

\* onceDownloadCertificates that does not look for ctxKeyOnceDlCert
onceDownloadIssuesNoGuard(ctxOnce, s, t) == isUpgrade(s, t)

\* client.onceDownloadCertificates up to its call of c.Do: whether the
\* cert-fetch sub-call is issued
onceDownloadIssues(ctxOnce, s, t) ==
    IF ctxOnce THEN FALSE
    ELSE IF ~isUpgrade(s, t) THEN FALSE
    ELSE TRUE

\* VerifySignature that hands whatever the lookup gave to the signature check
lookupAndVerifyNoNilCheck(s, result) ==
    signVerifySignature(
        get(s, result.SerialNo),
        [Body |-> result.Body, Timestamp |-> result.Timestamp,
         Nonce |-> result.Nonce],
        result.Signature)

\* client.VerifySignature after onceDownloadCertificates returned nil
lookupAndVerify(s, result) ==
    LET publicKey == get(s, result.SerialNo)
    IN  IF publicKey = NoKey THEN Fail("notfound")
        ELSE signVerifySignature(
                 publicKey,
                 [Body |-> result.Body, Timestamp |-> result.Timestamp,
                  Nonce |-> result.Nonce],
                 result.Signature)

\* client.Do that drops the error of VerifySignature
DoSetVerifyErrDropped(result, err) == result

\* client.Do, step 7: the Result with the error of VerifySignature
DoSetVerifyErr(result, err) ==
    IF err # Nil THEN [result EXCEPT !.Err = err] ELSE result

(***************************************************************************)
(* PayNotification.ParseHttpRequest and PayNotification.Parse.              *)
(***************************************************************************)
\* the ciphertext of the resource of an envelope: the encryption of a JSON
\* transaction, the same with one byte changed, the encryption of bytes
\* that are no JSON
Ciphers == {"ok", "tampered", "junk"}

\* a notification envelope with its encrypted resource
NotifyBody(cipher) ==
    Body("object", FALSE, 0, "", "", <<[cipher |-> cipher]>>)

\* a notification request with the given timestamp header, signed by sk
\* over the body signed, and carrying body
NotifyRequest(ts, sk, signed, body) ==
    Response(0, ts, "N", sk[1], Sig(sk[2], <<SignedTs(ts), "N", signed>>),
             body, FALSE)

\* the inbound notification requests: a good envelope under every
\* timestamp header and every signer; bodies that are no JSON, or changed
\* and signed again; a good envelope changed under its signature; and
\* bodies that cannot be read
NotifyRequests ==
    { NotifyRequest(ts, <<"S1", "K1">>, NotifyBody("ok"), NotifyBody("ok")) :
        ts \in TsHeaders }
    \cup { NotifyRequest(<<"1", "6">>, sk, NotifyBody("ok"), NotifyBody("ok")) :
             sk \in Signers }
    \cup { NotifyRequest(<<"1", "6">>, <<"S1", "K1">>, body, body) :
             body \in {InvalidBody, NotifyBody("tampered"),
                       NotifyBody("junk")} }
    \cup { NotifyRequest(<<"1", "6">>, <<"S1", "K1">>, NotifyBody("ok"),
                         NotifyBody("tampered")) }
    \cup ReadErrResponses

\* ParseHttpRequest up to its call of n.Parse: the Result handed to Parse,
\* or the error returned before it
notifyIntake(req) ==
    IF req.readErr THEN ErrResult(Fail("read"))
    ELSE LET ts == req.Timestamp
             p  == IF ts # <<>> THEN ParseInt(ts)
                   ELSE [err |-> "nil", val |-> Zero64]
         IN  IF p.err # "nil" THEN ErrResult(Fail("strconv"))
             ELSE Result(req.Body, p.val, req.Nonce, req.Signature,
                         req.Serial, Nil)

\* what the cert-fetch of a notification's refresh meets: whether the
\* request gets through, and the answer
FetchEnv(sendOk, resp) == [sendOk |-> sendOk, resp |-> resp]

\* the request does not get through
NoFetch == FetchEnv(FALSE, NoResponse)

FetchEnvs ==
    { NoFetch }
    \cup { FetchEnv(TRUE, Response(StatusOK, <<"1", "6">>, "N", "S1",
                                   Sig("K1", <<<<"1", "6">>, "N", body>>),
                                   body, FALSE)) : body \in CertBodies }
    \cup { FetchEnv(TRUE, Response(StatusInternalServerError, <<>>, "", "",
                                   NoSig, ErrorBody, FALSE)) }

\* c.Do(ctx, http.MethodGet, c.config.opts.CertUrl) with ctxKeyOnceDlCert on
\* ctx, from call to return: [err, secrets]
certFetch(s, d, t, env) ==
    IF ~env.sendOk THEN [err |-> Fail("transport"), secrets |-> s]
    ELSE LET result == doRead(env.resp)
         IN  IF result.Err # Nil THEN [err |-> result.Err, secrets |-> s]
             ELSE LET w == upgradeCertWorkflow(s, result, d, t)
                  IN  IF w.err # Nil THEN w
                      ELSE [err     |-> lookupAndVerify(w.secrets, result),
                            secrets |-> w.secrets]

\* sign.DecryptByAes256Gcm that opens a ciphertext without authenticating it
DecryptUnauthenticated(resource) ==
    IF resource.cipher = "junk" THEN [err |-> Nil, plain |-> "junk"]
    ELSE [err |-> Nil, plain |-> "trans"]

\* sign.DecryptByAes256Gcm on the resource of an envelope: [err, plain]
DecryptByAes256Gcm(resource) ==
    IF resource.cipher = "tampered"
    THEN [err |-> Fail("cipher"), plain |-> "none"]
    ELSE IF resource.cipher = "junk" THEN [err |-> Nil, plain |-> "junk"]
    ELSE [err |-> Nil, plain |-> "trans"]

\* what PayNotification.Parse did and returned: the steps it ran, what its
\* VerifySignature found and did, the error, the plaintext delivered, and
\* the cache it left
Parsed(steps, stale, nrefresh, subErr, verified, usedKey, err, plain, s) ==
    [steps |-> steps, stale |-> stale, nrefresh |-> nrefresh,
     subErr |-> subErr, verified |-> verified, usedKey |-> usedKey,
     err |-> err, plain |-> plain, secrets |-> s]

\* Parse from the decryption on, after the steps run so far
ParseDecrypt(steps, stale, nrefresh, subErr, verified, usedKey, result, s) ==
    LET dec == DecryptByAes256Gcm(result.Body.data[1])
        st  == Append(steps, "decrypt")
    IN  IF dec.err # Nil
        THEN Parsed(st, stale, nrefresh, subErr, verified, usedKey,
                    dec.err, "none", s)
        ELSE IF dec.plain = "junk"
        THEN Parsed(st, stale, nrefresh, subErr, verified, usedKey,
                    Fail("json"), "none", s)
        ELSE Parsed(st, stale, nrefresh, subErr, verified, usedKey,
                    Nil, dec.plain, s)

\* Parse that decrypts whatever VerifySignature returned
ParseIgnoringVerify(s, d, t, result, env) ==
    IF result.Body.kind # "object"
    THEN Parsed(<<"parse">>, "unset", 0, "unset", "unset", NoKey,
                Fail("json"), "none", s)
    ELSE LET err == lookupAndVerify(s, result)
         IN  ParseDecrypt(<<"parse", "verify">>, "unset", 0, "unset",
                          IF err = Nil THEN "ok" ELSE "fail",
                          get(s, result.SerialNo), result, s)

\* PayNotification.Parse(ctx, c, result): the envelope, VerifySignature
\* with its refresh, the decryption, the transaction
Parse(s, d, t, result, env) ==
    IF result.Body.kind # "object"
    THEN Parsed(<<"parse">>, "unset", 0, "unset", "unset", NoKey,
                Fail("json"), "none", s)
    ELSE LET steps   == <<"parse", "verify">>
             stale   == IF isUpgrade(s, t) THEN "stale" ELSE "fresh"
             issues  == onceDownloadIssues(FALSE, s, t)
             rs      == IF issues THEN certFetch(s, d, t, env)
                        ELSE [err |-> Nil, secrets |-> s]
             n       == IF issues THEN 1 ELSE 0
             subErr  == IF ~issues THEN "unset"
                        ELSE IF rs.err = Nil THEN "nil" ELSE "err"
             err     == lookupAndVerify(rs.secrets, result)
             usedKey == get(rs.secrets, result.SerialNo)
         IN  IF rs.err # Nil
             THEN Parsed(steps, stale, n, subErr, "unset", NoKey,
                         rs.err, "none", rs.secrets)
             ELSE IF err # Nil
             THEN Parsed(steps, stale, n, subErr, "fail", usedKey,
                         err, "none", rs.secrets)
             ELSE ParseDecrypt(steps, stale, n, subErr, "ok", usedKey,
                               result, rs.secrets)

(***************************************************************************)
(* Result.Scan, as the endpoints chain it to client.Do.                    *)
(***************************************************************************)
\* the destination of a Scan: whether it was written, and with what
Dest(decoded, value) == [decoded |-> decoded, value |-> value]

\* the destination as the endpoint allocates it
ZeroDest == Dest(FALSE, EmptyBody)

\* json.Unmarshal(r.Body, dest)
UnmarshalDest(body, dest) ==
    IF body.kind \in {"empty", "invalid"}
    THEN [err |-> Fail("json"), dest |-> dest]
    ELSE IF body.kind = "null" THEN [err |-> Nil, dest |-> dest]
    ELSE [err |-> Nil, dest |-> Dest(TRUE, body)]

\* Scan without the check of r.Err
ScanIgnoringErr(r, dest) ==
    IF r.Body = EmptyBody THEN [err |-> Nil, dest |-> dest]
    ELSE UnmarshalDest(r.Body, dest)

\* Scan without the check of an empty body
ScanNoEmptyCheck(r, dest) ==
    IF r.Err # Nil THEN [err |-> r.Err, dest |-> dest]
    ELSE UnmarshalDest(r.Body, dest)

\* Result.Scan(dest): [err, dest]
Scan(r, dest) ==
    IF r.Err # Nil THEN [err |-> r.Err, dest |-> dest]
    ELSE IF r.Body = EmptyBody THEN [err |-> Nil, dest |-> dest]
    ELSE UnmarshalDest(r.Body, dest)

\* what an endpoint did with the Result of its call: whether Scan was
\* invoked, the status of the answer, the Err and the Body of the Result,
\* and what Scan gave
Scanned(invoked, status, result, ret, dest) ==
    [invoked |-> invoked, status |-> status, Err |-> result.Err,
     Body |-> result.Body, ret |-> ret, dest |-> dest]

NoScan == Scanned(FALSE, 0, ErrResult(Nil), Nil, ZeroDest)

(***************************************************************************)
(* RequestSignature.Marshal.  The output is the sequence of the strings    *)
(* written to the buffer, the decimal timestamp one digit at a time.       *)
(***************************************************************************)
LF == "\n"

\* a sign.RequestSignature with its five fields; Url is the URL as
\* url.Parse reads it and Body the text of the body
SignedRequest(method, url, ts, nonce, body) ==
    [Method |-> method, Url |-> url, Timestamp |-> ts, Nonce |-> nonce,
     Body |-> body]

\* the cert-fetch URL on another host
OtherHostUrl == Url(TRUE, "api2.mch.weixin.qq.com", "/v3/certificates", "")

\* the requests Marshal is applied to
SignedRequests ==
    { SignedRequest(m, u, ts, n, b) :
        m \in Methods, u \in Urls \cup {OtherHostUrl},
        ts \in {Zero64, Int64(FALSE, <<1, 6>>), Int64(TRUE, <<1>>)},
        n \in {"", "N1", "N2"}, b \in {"", "null", "{}"} }

\* a Marshal that writes the "?" whether or not there is a query
MarshalAlwaysQuery(r) ==
    IF ~r.Url.valid THEN [err |-> Fail("url"), bytes |-> <<>>]
    ELSE [err |-> Nil,
          bytes |-> <<r.Method, LF, r.Url.Path, "?", r.Url.RawQuery, LF>>
                    \o FormatInt(r.Timestamp) \o <<LF, r.Nonce, LF>>
                    \o (IF r.Body # "" THEN <<r.Body>> ELSE <<>>) \o <<LF>>]

\* (r *RequestSignature) Marshal(): [err, bytes]
Marshal(r) ==
    IF ~r.Url.valid THEN [err |-> Fail("url"), bytes |-> <<>>]
    ELSE LET uri == IF r.Url.RawQuery # ""
                    THEN <<r.Url.Path, "?", r.Url.RawQuery>>
                    ELSE <<r.Url.Path>>
         IN  [err |-> Nil,
              bytes |-> <<r.Method, LF>> \o uri \o <<LF>>
                        \o FormatInt(r.Timestamp) \o <<LF, r.Nonce, LF>>
                        \o (IF r.Body # "" THEN <<r.Body>> ELSE <<>>)
                        \o <<LF>>]

\* a Marshal in hand: the request, how many times it was marshalled, and
\* the outputs of the first and of the last call
Marshalling(r, calls, out, again) ==
    [r |-> r, calls |-> calls, out |-> out, again |-> again]

NoMarshal ==
    Marshalling(SignedRequest("", BadUrl, Zero64, "", ""), 0,
                [err |-> Nil, bytes |-> <<>>], [err |-> Nil, bytes |-> <<>>])

(***************************************************************************)
(* UnmarshalTradeBillResponse and UnmarshalFundFlowBillResponse.  A line   *)
(* of a bill is kept as the number of its comma-separated values and       *)
(* whether its numeric values parse; a decoded record or summary is the    *)
(* number of the line it was made of.                                      *)
(***************************************************************************)
MaxRows == 5

\* a decoder: the function and its billType argument
Decoder(kind, billType) == [kind |-> kind, billType |-> billType]

Decoders ==
    {Decoder("trade", "ALL"), Decoder("trade", "REFUND"),
     Decoder("trade", "SUCCESS"), Decoder("fundflow", "")}

\* the len(values) that marks the summary lines
SummaryFields(d) == IF d.kind = "fundflow" THEN 5 ELSE 7

\* the len(values) the decoder of a record asks for
RecordFields(d) ==
    CASE d.kind = "fundflow"    -> 11
      [] d.billType = "REFUND"  -> 29
      [] d.billType = "SUCCESS" -> 20
      [] OTHER                  -> 27

\* a line of the data
Row(n, numeric) == [n |-> n, numeric |-> numeric]

\* the lines a bill given to the decoder d is made of
Rows(d) ==
    {Row(n, ok) : n \in {SummaryFields(d), RecordFields(d)}, ok \in BOOLEAN}
        \cup {Row(1, FALSE)}

\* the data given to the decoder d: up to MaxRows lines
Bills(d) == UNION {[1 .. k -> Rows(d)] : k \in 0 .. MaxRows}

\* a decoding: the decoder, the lines, the loop index i, the flag first,
\* the records appended, the line of the summary (0: none), the error
Decoding(d, rows) ==
    [d |-> d, rows |-> rows, pc |-> "enter", i |-> 0, first |-> TRUE,
     records |-> <<>>, summary |-> 0, err |-> Nil]

NoBill == [Decoding(Decoder("trade", "ALL"), <<>>) EXCEPT !.pc = "idle"]

\* return nil, err
BillFails(b, err) ==
    [b EXCEPT !.pc = "done", !.records = <<>>, !.summary = 0, !.err = err]

\* UnmarshalTradeBillSummary, UnmarshalFundFlowBillSummary
UnmarshalBillSummary(d, row) ==
    IF row.n # SummaryFields(d) THEN Fail("length")
    ELSE IF ~row.numeric THEN Fail("number") ELSE Nil

\* UnmarshalAllTradeBill, UnmarshalRefundTradeBill,
\* UnmarshalSuccessTradeBill, UnmarshalFundFlowBill
UnmarshalBill(d, row) ==
    IF row.n # RecordFields(d) THEN Fail("length")
    ELSE IF ~row.numeric THEN Fail("number") ELSE Nil

\* a loop body that takes the first line of the summary length as the
\* summary
ScanLineNoTitle(b) ==
    LET line == b.i + 1
        row  == b.rows[line]
        next == [b EXCEPT !.i = line]
    IN  IF b.i = 0 THEN next
        ELSE IF row.n = SummaryFields(b.d)
        THEN IF UnmarshalBillSummary(b.d, row) # Nil
             THEN BillFails(next, UnmarshalBillSummary(b.d, row))
             ELSE [next EXCEPT !.summary = line, !.pc = "done"]
        ELSE IF UnmarshalBill(b.d, row) # Nil
        THEN BillFails(next, UnmarshalBill(b.d, row))
        ELSE [next EXCEPT !.records = Append(@, line)]

\* one turn of the loop over scanner.Scan(), on line i
ScanLine(b) ==
    LET line == b.i + 1
        row  == b.rows[line]
        next == [b EXCEPT !.i = line]
    IN  IF b.i = 0 THEN next
        ELSE IF row.n = SummaryFields(b.d)
        THEN IF b.first THEN [next EXCEPT !.first = FALSE]
             ELSE IF UnmarshalBillSummary(b.d, row) # Nil
             THEN BillFails(next, UnmarshalBillSummary(b.d, row))
             ELSE [next EXCEPT !.summary = line, !.pc = "done"]
        ELSE IF UnmarshalBill(b.d, row) # Nil
        THEN BillFails(next, UnmarshalBill(b.d, row))
        ELSE [next EXCEPT !.records = Append(@, line)]

(***************************************************************************)
(* A refresh and a concurrent reader.  The goroutine that got the answer   *)
(* of a cert-fetch runs upgradeCertWorkflow, which takes the lock of the   *)
(* cache once for every certificate; another goroutine runs the two reads  *)
(* of VerifySignature, isUpgrade and get, each under the read lock.        *)
(***************************************************************************)
\* upgradeCertWorkflow at work: where it is, s.all when it began, the
\* certificates of the answer, how many it has stored, its error
Installer(pc, old, certs, k, err) ==
    [pc |-> pc, old |-> old, certs |-> certs, k |-> k, err |-> err]

NoInstaller == Installer("idle", clear(0).all, <<>>, 0, Nil)

\* VerifySignature of another goroutine: where it is, what isUpgrade said,
\* the serial it looked up, the key get returned, and s.all as it was
\* under the read lock of get
Reader(pc, stale, serial, key, all) ==
    [pc |-> pc, stale |-> stale, serial |-> serial, key |-> key,
     all |-> all]

NoReader == Reader("idle", FALSE, "", NoKey, clear(0).all)

\* the caches a refresh can meet: empty or holding keys, fresh or stale
OldCaches ==
    { Secrets(all, dl) :
        all \in { clear(0).all,
                  [clear(0).all EXCEPT !["S1"] = "K1"],
                  [clear(0).all EXCEPT !["S1"] = "K2"],
                  [clear(0).all EXCEPT !["S2"] = "K2"] },
        dl \in {-1, 0, MaxRefresh} }

(***************************************************************************)
(* Callers that verify at the same time.  s.mutex is a sync.RWMutex; each  *)
(* method of secrets takes it, does its reads or writes, and gives it      *)
(* back.  A caller runs client.VerifySignature: isUpgrade, when stale the  *)
(* cert-fetch with its install and its own verification, then get.         *)
(***************************************************************************)
Callers == {"c1", "c2"}

\* s.mutex: the holder of the exclusive lock (at most one) and the holders
\* of the shared lock
Mutex(writer, readers) == [writer |-> writer, readers |-> readers]

NoMutex == Mutex({}, {})

\* a Lock that does not wait for anybody
LockAnyway(m, c) == TRUE

\* s.mutex.Lock() can return
CanLock(m, c) == m.writer = {} /\ m.readers = {}

\* s.mutex.RLock() can return
CanRLock(m, c) == m.writer = {}

Lock(m, c) == [m EXCEPT !.writer = {c}]

Unlock(m, c) == [m EXCEPT !.writer = @ \ {c}]

RLock(m, c) == [m EXCEPT !.readers = @ \cup {c}]

\* an RUnlock that keeps the shared lock
RUnlockKept(m, c) == m

RUnlock(m, c) == [m EXCEPT !.readers = @ \ {c}]

\* the answer a caller verifies: its Wechatpay-Serial and the key the
\* signature was made with
Signed(serial, key) == [serial |-> serial, key |-> key]

\* answers signed by the platform, and one signed by another key
SignedAnswers == {Signed("S1", "K1"), Signed("S2", "K2"), Signed("S1", "K2")}

\* a caller inside VerifySignature: where it is, the answer it verifies,
\* what isUpgrade said, whether it issued a cert-fetch, the certificates
\* of the answer to it, how many it has stored, the error of the refresh,
\* the key get returned, the outcome, and whether one of its reads saw an
\* add between its two writes
Caller(pc, answer) ==
    [pc |-> pc, answer |-> answer, stale |-> "unset", fetched |-> FALSE,
     certs |-> <<>>, k |-> 0, err |-> Nil, key |-> NoKey,
     verified |-> "unset", torn |-> FALSE]

NoCallers == [c \in Callers |-> Caller("idle", Signed("", NoKey))]

\* the positions at which a caller holds the shared lock
SharedPcs == {"isUpgradeLocked", "subgetLocked", "getLocked"}

\* the positions at which a caller holds the exclusive lock
ExclusivePcs == {"clearLocked", "addLocked", "addDeadline"}

\* the positions at which a caller waits for the network
IoPcs == {"fetching"}

(***************************************************************************)
(* The state.  Times are kept relative to the current instant: time.Now()  *)
(* is Now, and the passing of time moves s.deadline towards the past.      *)
(***************************************************************************)
VARIABLES
    secrets,      \* c.secrets: all and deadline
    refreshTime,  \* c.config.opts.refreshTime
    stack,        \* the frames of the client.Do calls in progress
    notify,       \* the last notification intake: request, Result, parsed
    scanned,      \* the last Scan an endpoint chained to its call
    marshal,      \* a RequestSignature.Marshal in hand
    bill,         \* a decoding of a bill in hand
    installer,    \* an upgradeCertWorkflow that stores key by key
    reader,       \* a VerifySignature of another goroutine
    mutex,        \* s.mutex
    callers       \* the callers that verify at the same time

vars ==
    <<secrets, refreshTime, stack, notify, scanned, marshal, bill,
      installer, reader, mutex, callers>>

\* what the calls of the client leave alone
sideVars == <<marshal, bill, installer, reader, mutex, callers>>

\* time.Now()
Now == 0

\* a notification intake: the request, the Result made of it, whether it
\* was handed to Parse, and what Parse did
Notify(req, result, parsed) ==
    [req |-> req, result |-> result, parsed |-> parsed,
     steps |-> <<>>, stale |-> "unset", nrefresh |-> 0, subErr |-> "unset",
     verified |-> "unset", usedKey |-> NoKey, err |-> result.Err,
     plain |-> "none"]

NoNotify == Notify(NoResponse, ErrResult(Nil), FALSE)

Top == stack[Len(stack)]

SetTop(f) == [stack EXCEPT ![Len(stack)] = f]

Running(pc) == stack # <<>> /\ Top.pc = pc

Log(f, step) == [f EXCEPT !.steps = Append(@, step)]

\* return &Result{Err: err} or a Result with result.Err set
Finish(f, result) == [f EXCEPT !.pc = "done", !.result = result]

\* newClient: c.secrets.clear()
Init ==
    /\ secrets = clear(Now)
    /\ refreshTime \in RefreshTimes
    /\ stack = <<>>
    /\ notify = NoNotify
    /\ scanned = NoScan
    /\ marshal = NoMarshal
    /\ bill = NoBill
    /\ installer = NoInstaller
    /\ reader = NoReader
    /\ mutex = NoMutex
    /\ callers = NoCallers

\* time passes; once the deadline has passed, how long ago does not matter
Tick ==
    /\ secrets.deadline >= Now
    /\ secrets' = [secrets EXCEPT !.deadline = @ - 1]
    /\ UNCHANGED <<refreshTime, stack, notify, scanned>>
    /\ UNCHANGED sideVars

\* the frame client.Do starts with, or the frame it returns with when
\* json.Marshal fails
DoEnter(ctxOnce, method, url, reqv, s) ==
    LET m == DoSerialize(method, reqv)
        f == [Frame("sign", ctxOnce, reqv,
                    RequestSignature(method, url, m.buffer), ErrResult(Nil))
              EXCEPT !.issuedEmpty =
                  (method = "GET" /\ url = CertUrl /\ LenAll(s) = 0)]
    IN  IF m.err # Nil THEN Finish(f, ErrResult(m.err)) ELSE f

\* a caller calls client.Do(ctx, method, url, req...)
Call(method, url, reqv) ==
    /\ stack = <<>>
    /\ stack' = <<DoEnter(FALSE, method, url, reqv, secrets)>>
    /\ notify' = NoNotify
    /\ scanned' = NoScan
    /\ UNCHANGED <<secrets, refreshTime>>
    /\ UNCHANGED sideVars

\* client.do: http.NewRequest and c.Signature
Sign(signOk) ==
    /\ Running("sign")
    /\ stack' = SetTop(
         IF ~Top.reqSign.Url.valid THEN Finish(Top, ErrResult(Fail("url")))
         ELSE IF ~signOk THEN Finish(Log(Top, "sign"), ErrResult(Fail("sign")))
         ELSE [Log(Top, "sign") EXCEPT !.pc = NextPc("sign")])
    /\ UNCHANGED <<secrets, refreshTime, notify, scanned>>
    /\ UNCHANGED sideVars

\* client.do: client.Do(httpReq) puts the request on the wire and fails
SendFails ==
    /\ Running("send")
    /\ stack' = SetTop(
         Finish([Log(Top, "send") EXCEPT !.wire = Top.reqSign.Body,
                                         !.sent = @ + 1],
                ErrResult(Fail("transport"))))
    /\ UNCHANGED <<secrets, refreshTime, notify, scanned>>
    /\ UNCHANGED sideVars

\* client.do: client.Do(httpReq) puts the request on the wire and returns
\* the answer, which is not looked at yet
Send ==
    /\ Running("send")
    /\ stack' = SetTop(
         [Log(Top, "send") EXCEPT !.wire = Top.reqSign.Body, !.sent = @ + 1,
                                  !.pc = NextPc("send")])
    /\ UNCHANGED <<secrets, refreshTime, notify, scanned>>
    /\ UNCHANGED sideVars

\* client.do: the status check, the headers and the body of the answer resp
Receive ==
    /\ Running("receive")
    /\ \E resp \in Responses(Top.reqSign.Method, Top.reqSign.Url) :
         LET result == doRead(resp)
             f      == [Log(Top, "receive") EXCEPT !.resp = resp]
         IN  stack' = SetTop(
               IF result.Err # Nil THEN Finish(f, result)
               ELSE [f EXCEPT !.result = result, !.pc = NextPc("receive")])
    /\ UNCHANGED <<secrets, refreshTime, notify, scanned>>
    /\ UNCHANGED sideVars

\* client.Do, step 6: doExtraWorkflow; req is not read from here on
Extra ==
    /\ Running("extra")
    /\ IF getExtraWorkflows(Top.reqSign) = <<>>
       THEN /\ stack' = SetTop([Top EXCEPT !.pc = NextPc("extra"),
                                           !.reqv = "absent"])
            /\ UNCHANGED secrets
       ELSE LET w == upgradeCertWorkflow(secrets, Top.result, refreshTime, Now)
                f == [Log(Top, "install") EXCEPT !.reqv = "absent"]
            IN  /\ secrets' = w.secrets
                /\ stack' = SetTop(
                     IF w.err # Nil
                     THEN Finish(f, [f.result EXCEPT !.Err = w.err])
                     ELSE [f EXCEPT !.pc = NextPc("extra")])
    /\ UNCHANGED <<refreshTime, notify, scanned>>
    /\ UNCHANGED sideVars

\* the frame after the key lookup and the signature check of
\* client.VerifySignature
Checked(f, s) ==
    LET err == lookupAndVerify(s, f.result)
    IN  Finish([f EXCEPT !.usedKey = get(s, f.result.SerialNo),
                         !.verified = IF err = Nil THEN "ok" ELSE "fail"],
               DoSetVerifyErr(f.result, err))

\* client.Do, step 7: VerifySignature, which either issues the cert-fetch
\* sub-call of onceDownloadCertificates or looks the key up and verifies
Verify ==
    /\ Running("verify")
    /\ LET f == [Log(Top, "verify") EXCEPT
                   !.stale = IF secrets.deadline < Now \/ LenAll(secrets) = 0
                             THEN "stale" ELSE "fresh"]
       IN  IF onceDownloadIssues(Top.ctxOnce, secrets, Now)
           THEN /\ Len(stack) < MaxDepth
                /\ stack' = Append(
                     SetTop([f EXCEPT !.pc = "refresh", !.nrefresh = @ + 1]),
                     DoEnter(TRUE, "GET", CertUrl, "absent", secrets))
           ELSE stack' = SetTop(Checked(f, secrets))
    /\ UNCHANGED <<secrets, refreshTime, notify, scanned>>
    /\ UNCHANGED sideVars

\* onceDownloadCertificates: the sub-call returned rs
RefreshReturn ==
    /\ Len(stack) > 1
    /\ Top.pc = "done"
    /\ LET rs == Top.result
           f  == [stack[Len(stack) - 1] EXCEPT
                    !.subErr = IF rs.Err = Nil THEN "nil" ELSE "err",
                    !.subVerified = Top.verified]
           g  == IF rs.Err # Nil
                 THEN Finish(f, DoSetVerifyErr(f.result, rs.Err))
                 ELSE Checked(f, secrets)
       IN  stack' = [SubSeq(stack, 1, Len(stack) - 1)
                       EXCEPT ![Len(stack) - 1] = g]
    /\ UNCHANGED <<secrets, refreshTime, notify, scanned>>
    /\ UNCHANGED sideVars

\* the top-level call returns its Result to the caller
Return ==
    /\ Len(stack) = 1
    /\ Top.pc = "done"
    /\ stack' = <<>>
    /\ UNCHANGED <<secrets, refreshTime, notify, scanned>>
    /\ UNCHANGED sideVars

\* an endpoint's c.Do(ctx, method, url, req...).Scan(resp): the call returns
\* and Scan is applied to its Result
EndpointReturn ==
    /\ Len(stack) = 1
    /\ Top.pc = "done"
    /\ LET sc == Scan(Top.result, ZeroDest)
       IN  scanned' = Scanned(TRUE, Top.resp.StatusCode, Top.result,
                              sc.err, sc.dest)
    /\ stack' = <<>>
    /\ UNCHANGED <<secrets, refreshTime, notify>>
    /\ UNCHANGED sideVars

\* PayNotification.ParseHttpRequest(c, req): the intake and, unless it
\* fails, n.Parse; env is what the cert-fetch of a refresh meets (NoFetch
\* where none is issued)
ParseHttpRequest(req, env) ==
    /\ stack = <<>>
    /\ \E result \in {notifyIntake(req)} :
         IF result.Err # Nil
         THEN /\ env = NoFetch
              /\ notify' = Notify(req, result, FALSE)
              /\ UNCHANGED secrets
         ELSE /\ (result.Body.kind = "object" /\ isUpgrade(secrets, Now))
                    \/ env = NoFetch
              /\ \E p \in {Parse(secrets, refreshTime, Now, result, env)} :
                   /\ notify' = [Notify(req, result, TRUE) EXCEPT
                                   !.steps = p.steps, !.stale = p.stale,
                                   !.nrefresh = p.nrefresh,
                                   !.subErr = p.subErr,
                                   !.verified = p.verified,
                                   !.usedKey = p.usedKey, !.err = p.err,
                                   !.plain = p.plain]
                   /\ secrets' = p.secrets
    /\ scanned' = NoScan
    /\ UNCHANGED <<refreshTime, stack>>
    /\ UNCHANGED sideVars

Next ==
    \/ Tick
    \/ \E method \in Methods, url \in Urls, reqv \in ReqValues :
         Call(method, url, reqv)
    \/ \E signOk \in BOOLEAN : Sign(signOk)
    \/ SendFails
    \/ Send
    \/ Receive
    \/ Extra
    \/ Verify
    \/ RefreshReturn
    \/ Return
    \/ EndpointReturn
    \/ \E req \in NotifyRequests, env \in FetchEnvs :
         ParseHttpRequest(req, env)

Spec == Init /\ [][Next]_vars

(***************************************************************************)
(* RequestSignature.Marshal applied to a request, twice.                   *)
(***************************************************************************)
\* the client at rest
ClientIdle ==
    /\ secrets = clear(Now)
    /\ refreshTime = 0
    /\ stack = <<>>
    /\ notify = NoNotify
    /\ scanned = NoScan

clientVars == <<secrets, refreshTime, stack, notify, scanned>>

InitMarshal ==
    /\ ClientIdle
    /\ bill = NoBill
    /\ installer = NoInstaller
    /\ reader = NoReader
    /\ mutex = NoMutex
    /\ callers = NoCallers
    /\ marshal \in { Marshalling(r, 0, NoMarshal.out, NoMarshal.again) :
                       r \in SignedRequests }

\* reqSign.Marshal()
MarshalCall ==
    /\ marshal.calls = 0
    /\ marshal' = [marshal EXCEPT !.calls = 1, !.out = Marshal(marshal.r),
                                  !.again = Marshal(marshal.r)]
    /\ UNCHANGED <<clientVars, bill, installer, reader, mutex, callers>>

\* reqSign.Marshal() once more on the same request
MarshalAgain ==
    /\ marshal.calls = 1
    /\ marshal' = [marshal EXCEPT !.calls = 2, !.again = Marshal(marshal.r)]
    /\ UNCHANGED <<clientVars, bill, installer, reader, mutex, callers>>

NextMarshal == MarshalCall \/ MarshalAgain

SpecMarshal == InitMarshal /\ [][NextMarshal]_vars

(***************************************************************************)
(* The decoding of a bill, one line at a time.                             *)
(***************************************************************************)
InitBill ==
    /\ ClientIdle
    /\ marshal = NoMarshal
    /\ installer = NoInstaller
    /\ reader = NoReader
    /\ mutex = NoMutex
    /\ callers = NoCallers
    /\ \E d \in Decoders : \E rows \in Bills(d) : bill = Decoding(d, rows)

\* the check of len(data) and the start of the scanner
BillEnter ==
    /\ bill.pc = "enter"
    /\ bill' = IF bill.rows = <<>> THEN BillFails(bill, Fail("empty"))
               ELSE [bill EXCEPT !.pc = "scan"]
    /\ UNCHANGED <<clientVars, marshal, installer, reader, mutex, callers>>

\* scanner.Scan() gave a line
BillLine ==
    /\ bill.pc = "scan"
    /\ bill.i < Len(bill.rows)
    /\ bill' = ScanLine(bill)
    /\ UNCHANGED <<clientVars, marshal, installer, reader, mutex, callers>>

\* scanner.Scan() gave no further line: return r, nil
BillEnd ==
    /\ bill.pc = "scan"
    /\ bill.i = Len(bill.rows)
    /\ bill' = [bill EXCEPT !.pc = "done"]
    /\ UNCHANGED <<clientVars, marshal, installer, reader, mutex, callers>>

NextBill == BillEnter \/ BillLine \/ BillEnd

SpecBill == InitBill /\ [][NextBill]_vars

(***************************************************************************)
(* A refresh that stores its keys while another goroutine verifies.        *)
(***************************************************************************)
InitConc ==
    /\ secrets \in OldCaches
    /\ refreshTime \in RefreshTimes
    /\ stack = <<>>
    /\ notify = NoNotify
    /\ scanned = NoScan
    /\ marshal = NoMarshal
    /\ bill = NoBill
    /\ installer = NoInstaller
    /\ reader = NoReader
    /\ mutex = NoMutex
    /\ callers = NoCallers

restVars ==
    <<refreshTime, stack, notify, scanned, marshal, bill, mutex, callers>>

\* upgradeCertWorkflow is entered with the body of a cert-fetch answer
InstallBegin(body) ==
    /\ installer.pc = "idle"
    /\ LET resp == UnmarshalCertificates(body)
       IN  installer' =
             IF resp.err # Nil
             THEN Installer("done", secrets.all, <<>>, 0, resp.err)
             ELSE Installer("loop", secrets.all, resp.Certificates, 0, Nil)
    /\ UNCHANGED <<secrets, reader, restVars>>

\* one turn of the loop: decrypt and load the certificate, c.secrets.add
InstallOne ==
    /\ installer.pc = "loop"
    /\ installer.k < Len(installer.certs)
    /\ LET cert == installer.certs[installer.k + 1]
       IN  IF cert.fault # "ok"
           THEN /\ installer' =
                     [installer EXCEPT !.pc = "done",
                        !.err = IF cert.fault = "cipher"
                                THEN Fail("decrypt") ELSE Fail("pem")]
                /\ UNCHANGED secrets
           ELSE /\ secrets' = add(secrets, cert.SerialNo, cert.key,
                                  refreshTime, Now)
                /\ installer' = [installer EXCEPT !.k = @ + 1]
    /\ UNCHANGED <<reader, restVars>>

\* the loop is over: return nil
InstallEnd ==
    /\ installer.pc = "loop"
    /\ installer.k = Len(installer.certs)
    /\ installer' = [installer EXCEPT !.pc = "done"]
    /\ UNCHANGED <<secrets, reader, restVars>>

\* the reader's c.secrets.isUpgrade(); a reader that finds the cache stale
\* goes for a cert-fetch of its own
ReaderIsUpgrade ==
    /\ reader.pc = "idle"
    /\ reader' = [reader EXCEPT
                    !.stale = isUpgrade(secrets, Now),
                    !.pc = IF isUpgrade(secrets, Now) THEN "fetch"
                           ELSE "get"]
    /\ UNCHANGED <<secrets, installer, restVars>>

\* the reader's c.secrets.get(result.SerialNo)
ReaderGet(serial) ==
    /\ reader.pc = "get"
    /\ reader' = [reader EXCEPT !.pc = "done", !.serial = serial,
                                !.key = get(secrets, serial),
                                !.all = secrets.all]
    /\ UNCHANGED <<secrets, installer, restVars>>

NextConc ==
    \/ \E body \in CertBodies : InstallBegin(body)
    \/ InstallOne
    \/ InstallEnd
    \/ ReaderIsUpgrade
    \/ \E serial \in Serials : ReaderGet(serial)

SpecConc == InitConc /\ [][NextConc]_vars

(***************************************************************************)
(* Two callers verify at the same time, from the construction of the       *)
(* client or on a client whose cache has gone stale.                       *)
(***************************************************************************)
InitLock ==
    /\ refreshTime \in RefreshTimes
    /\ stack = <<>>
    /\ notify = NoNotify
    /\ scanned = NoScan
    /\ marshal = NoMarshal
    /\ bill = NoBill
    /\ installer = NoInstaller
    /\ reader = NoReader
    /\ mutex = NoMutex
    /\ \E answers \in [Callers -> SignedAnswers] :
         \/ /\ secrets = Secrets(clear(Now).all, -1)
            /\ callers = [c \in Callers |-> Caller("new", answers[c])]
         \/ /\ secrets = Secrets([clear(Now).all EXCEPT !["S1"] = "K1"], -1)
            /\ callers = [c \in Callers |-> Caller("isUpgrade", answers[c])]

lockRest ==
    <<refreshTime, stack, notify, scanned, marshal, bill, installer, reader>>

\* the caller c moves to pc
At(c, pc) == [callers EXCEPT ![c].pc = pc]

\* an add has written its entry and not yet its deadline
MidAdd == \E c \in Callers : callers[c].pc = "addDeadline"

\* newClient: c.secrets.clear() takes the lock
NewClientLock ==
    /\ callers["c1"].pc = "new"
    /\ CanLock(mutex, "c1")
    /\ mutex' = Lock(mutex, "c1")
    /\ callers' = At("c1", "clearLocked")
    /\ UNCHANGED <<secrets, lockRest>>

\* clear writes the map and the deadline and gives the lock back; the
\* client is handed to the callers
NewClientClear ==
    /\ callers["c1"].pc = "clearLocked"
    /\ secrets' = clear(Now)
    /\ mutex' = Unlock(mutex, "c1")
    /\ callers' = [c \in Callers |-> [callers[c] EXCEPT !.pc = "isUpgrade"]]
    /\ UNCHANGED lockRest

\* isUpgrade takes the shared lock
IsUpgradeLock(c) ==
    /\ callers[c].pc = "isUpgrade"
    /\ CanRLock(mutex, c)
    /\ mutex' = RLock(mutex, c)
    /\ callers' = At(c, "isUpgradeLocked")
    /\ UNCHANGED <<secrets, lockRest>>

\* isUpgrade reads the deadline and the map and gives the lock back
IsUpgradeRead(c) ==
    /\ callers[c].pc = "isUpgradeLocked"
    /\ mutex' = RUnlock(mutex, c)
    /\ callers' = [callers EXCEPT
         ![c].stale = IF isUpgrade(secrets, Now) THEN "stale" ELSE "fresh",
         ![c].torn = @ \/ MidAdd,
         ![c].pc = IF isUpgrade(secrets, Now) THEN "fetch" ELSE "get"]
    /\ UNCHANGED <<secrets, lockRest>>

\* onceDownloadCertificates: c.Do(ctx, GET, CertUrl) sends its request
FetchSend(c) ==
    /\ callers[c].pc = "fetch"
    /\ callers' = [callers EXCEPT ![c].fetched = TRUE, ![c].pc = "fetching"]
    /\ UNCHANGED <<secrets, mutex, lockRest>>

\* the cert-fetch fails on the network
FetchFails(c) ==
    /\ callers[c].pc = "fetching"
    /\ callers' = [callers EXCEPT ![c].err = Fail("transport"),
                                  ![c].pc = "done"]
    /\ UNCHANGED <<secrets, mutex, lockRest>>

\* the cert-fetch is answered: upgradeCertWorkflow decodes the body
FetchReceive(c, body) ==
    /\ callers[c].pc = "fetching"
    /\ LET resp == UnmarshalCertificates(body)
       IN  callers' =
             IF resp.err # Nil
             THEN [callers EXCEPT ![c].err = resp.err, ![c].pc = "done"]
             ELSE [callers EXCEPT ![c].certs = resp.Certificates,
                                  ![c].pc = "install"]
    /\ UNCHANGED <<secrets, mutex, lockRest>>

\* the loop of upgradeCertWorkflow ends, or stops at a certificate that
\* does not decrypt or parse
InstallStop(c) ==
    /\ callers[c].pc = "install"
    /\ LET k == callers[c].k
           certs == callers[c].certs
       IN  \/ /\ k = Len(certs)
              /\ callers' = At(c, "subget")
           \/ /\ k < Len(certs)
              /\ certs[k + 1].fault # "ok"
              /\ callers' = [callers EXCEPT
                   ![c].err = IF certs[k + 1].fault = "cipher"
                              THEN Fail("decrypt") ELSE Fail("pem"),
                   ![c].pc = "done"]
    /\ UNCHANGED <<secrets, mutex, lockRest>>

\* c.secrets.add takes the lock
AddLock(c) ==
    /\ callers[c].pc = "install"
    /\ callers[c].k < Len(callers[c].certs)
    /\ callers[c].certs[callers[c].k + 1].fault = "ok"
    /\ CanLock(mutex, c)
    /\ mutex' = Lock(mutex, c)
    /\ callers' = At(c, "addLocked")
    /\ UNCHANGED <<secrets, lockRest>>

\* add: s.all[key] = val
AddEntry(c) ==
    /\ callers[c].pc = "addLocked"
    /\ LET cert == callers[c].certs[callers[c].k + 1]
       IN  secrets' = [secrets EXCEPT
             !.all = add(secrets, cert.SerialNo, cert.key,
                         refreshTime, Now).all]
    /\ callers' = At(c, "addDeadline")
    /\ UNCHANGED <<mutex, lockRest>>

\* add: s.deadline = time.Now().Add(d), and the lock is given back
AddDeadline(c) ==
    /\ callers[c].pc = "addDeadline"
    /\ LET cert == callers[c].certs[callers[c].k + 1]
       IN  secrets' = [secrets EXCEPT
             !.deadline = add(secrets, cert.SerialNo, cert.key,
                              refreshTime, Now).deadline]
    /\ mutex' = Unlock(mutex, c)
    /\ callers' = [callers EXCEPT ![c].k = @ + 1, ![c].pc = "install"]
    /\ UNCHANGED lockRest

\* the cert-fetch verifies its own answer, signed under S1: get takes the
\* shared lock
SubgetLock(c) ==
    /\ callers[c].pc = "subget"
    /\ CanRLock(mutex, c)
    /\ mutex' = RLock(mutex, c)
    /\ callers' = At(c, "subgetLocked")
    /\ UNCHANGED <<secrets, lockRest>>

\* get reads the key and gives the lock back; the cert-fetch returns
SubgetRead(c) ==
    /\ callers[c].pc = "subgetLocked"
    /\ mutex' = RUnlock(mutex, c)
    /\ callers' = [callers EXCEPT
         ![c].torn = @ \/ MidAdd,
         ![c].err = IF get(secrets, "S1") = "K1" THEN Nil
                    ELSE Fail("refresh"),
         ![c].pc = IF get(secrets, "S1") = "K1" THEN "get" ELSE "done"]
    /\ UNCHANGED <<secrets, lockRest>>

\* VerifySignature: c.secrets.get(result.SerialNo) takes the shared lock
GetLock(c) ==
    /\ callers[c].pc = "get"
    /\ CanRLock(mutex, c)
    /\ mutex' = RLock(mutex, c)
    /\ callers' = At(c, "getLocked")
    /\ UNCHANGED <<secrets, lockRest>>

\* get reads the key and gives the lock back; the signature is checked
GetRead(c) ==
    /\ callers[c].pc = "getLocked"
    /\ mutex' = RUnlock(mutex, c)
    /\ LET key == get(secrets, callers[c].answer.serial)
       IN  callers' = [callers EXCEPT
             ![c].torn = @ \/ MidAdd,
             ![c].key = key,
             ![c].verified = IF key = NoKey THEN "notfound"
                             ELSE IF key = callers[c].answer.key THEN "ok"
                             ELSE "fail",
             ![c].pc = "done"]
    /\ UNCHANGED <<secrets, lockRest>>

NextLock ==
    \/ NewClientLock
    \/ NewClientClear
    \/ \E c \in Callers :
         \/ IsUpgradeLock(c)
         \/ IsUpgradeRead(c)
         \/ FetchSend(c)
         \/ FetchFails(c)
         \/ \E body \in CertBodies : FetchReceive(c, body)
         \/ InstallStop(c)
         \/ AddLock(c)
         \/ AddEntry(c)
         \/ AddDeadline(c)
         \/ SubgetLock(c)
         \/ SubgetRead(c)
         \/ GetLock(c)
         \/ GetRead(c)

SpecLock == InitLock /\ [][NextLock]_vars

(***************************************************************************)
(* The properties.  They are stated over the frames of the calls in        *)
(* progress; a call that has returned stays on the stack as a frame at     *)
(* "done" until its caller takes the Result.                               *)
(***************************************************************************)
Frames == {stack[i] : i \in 1 .. Len(stack)}

Done(f) == f.pc = "done"

Ran(f, step) == \E i \in 1 .. Len(f.steps) : f.steps[i] = step

Rank(step) == CHOOSE i \in 1 .. Len(StepNames) : StepNames[i] = step

\* the canonical string of the answer a Result was made of
Canonical(result) ==
    <<FormatInt(result.Timestamp), result.Nonce, result.Body>>

\* C1: a Result that client.Do returns with a nil Err has had its signature
\* verified, with success, against the public key the cache held for the
\* serial of the response, over the canonical string of the response; and a
\* failed verification, of the call or of the cert-fetch issued by its
\* verification, always ends in a Result whose Err is set.
C1_VerifiedBeforeSuccess ==
    \A f \in Frames :
        /\ (Done(f) /\ f.result.Err = Nil) =>
              /\ Ran(f, "verify")
              /\ f.verified = "ok"
              /\ f.usedKey # NoKey
              /\ f.usedKey = get(secrets, f.result.SerialNo)
              /\ f.result.Signature = Sig(f.usedKey, Canonical(f.result))
              /\ f.subErr # "err"
              /\ f.subVerified # "fail"
        /\ (Done(f) /\ (f.verified = "fail" \/ f.subVerified = "fail"
                        \/ f.subErr = "err"))
              => f.result.Err # Nil

\* a top-level call has returned a Result with a nil Err
C1_Witness ==
    \E f \in Frames :
        /\ Done(f) /\ ~f.ctxOnce /\ f.result.Err = Nil
        /\ f.verified = "ok"

\* C2: within one call the steps run one after the other in the order sign,
\* send, receive, (install), verify: a step is run at most once, only after
\* the steps before it, and install only between receive and verify.
C2_StepsInOrder ==
    \A f \in Frames :
        /\ \A i, j \in 1 .. Len(f.steps) :
              i < j => Rank(f.steps[i]) < Rank(f.steps[j])
        /\ \A i \in 1 .. Len(f.steps) :
              LET before == {f.steps[k] : k \in 1 .. i - 1}
              IN  CASE f.steps[i] = "sign"    -> before = {}
                    [] f.steps[i] = "send"    -> before = {"sign"}
                    [] f.steps[i] = "receive" -> before = {"sign", "send"}
                    [] f.steps[i] = "install" ->
                           before = {"sign", "send", "receive"}
                    [] f.steps[i] = "verify"  ->
                           {"sign", "send", "receive"} \subseteq before
        /\ (f.pc = "send") => f.steps = <<"sign">>
        /\ (f.pc = "receive") => f.steps = <<"sign", "send">>
        /\ (f.pc = "extra") => f.steps = <<"sign", "send", "receive">>
        /\ (f.pc \in {"verify", "refresh"}) => Ran(f, "receive")
        /\ (f.pc = "refresh") => Ran(f, "verify")

\* a call has run all five steps
C2_Witness ==
    \E f \in Frames :
        Done(f) /\ f.steps = <<"sign", "send", "receive", "install", "verify">>

\* the call is a GET of the cert-fetch URL
CertFetch(f) == f.reqSign.Method = "GET" /\ f.reqSign.Url = CertUrl

\* the certificates the body of a Result carries
Carried(result) == UnmarshalCertificates(result.Body).Certificates

\* the key a list of certificates carries for a serial: the last one, as the
\* install stores them in order
CarriedKey(certs, serial) ==
    LET at == {i \in 1 .. Len(certs) : certs[i].SerialNo = serial}
    IN  IF at = {} THEN NoKey
        ELSE certs[CHOOSE i \in at : \A k \in at : k <= i].key

\* every certificate of the list decrypts and parses
AllInstall(certs) == \A i \in 1 .. Len(certs) : certs[i].fault = "ok"

\* C3 (amended): for a GET of the cert-fetch URL the certificates of the
\* response are installed before the signature of that response is verified:
\* verification begins with the install done and each carried key in the
\* cache.  A cert-fetch issued with an empty cache verifies successfully when
\* every certificate it carries installs, its signature is made over the
\* canonical string with the key it carries for the serial of the response,
\* and its verification issues no further cert-fetch.
C3_InstallBeforeVerify ==
    \A f \in Frames : CertFetch(f) =>
        /\ (f.pc \in {"verify", "refresh"} \/ Ran(f, "verify"))
              => Ran(f, "install")
        /\ (f.pc = "verify") =>
              \A i \in 1 .. Len(Carried(f.result)) :
                  get(secrets, Carried(f.result)[i].SerialNo)
                      = CarriedKey(Carried(f.result),
                                   Carried(f.result)[i].SerialNo)
        /\ ( /\ Done(f) /\ f.issuedEmpty /\ Ran(f, "install")
             /\ AllInstall(Carried(f.result))
             /\ CarriedKey(Carried(f.result), f.result.SerialNo) # NoKey
             /\ f.result.Signature =
                    Sig(CarriedKey(Carried(f.result), f.result.SerialNo),
                        Canonical(f.result))
             /\ f.nrefresh = 0 )
              => (f.verified = "ok" /\ f.result.Err = Nil)

\* a top-level cert-fetch issued with an empty cache has installed two
\* certificates and has been verified with one of them
C3_Witness ==
    \E f \in Frames :
        /\ CertFetch(f) /\ ~f.ctxOnce /\ f.issuedEmpty /\ Done(f)
        /\ Len(Carried(f.result)) = 2
        /\ f.nrefresh = 0 /\ f.verified = "ok" /\ f.result.Err = Nil
        /\ f.usedKey = CarriedKey(Carried(f.result), f.result.SerialNo)

\* C3 as stated: a cert-fetch issued with an empty cache whose response is
\* signed by one of the certificates it carries verifies successfully.
C3_Original ==
    \A f \in Frames :
        ( /\ CertFetch(f) /\ f.issuedEmpty /\ Done(f) /\ Ran(f, "install")
          /\ \E i \in 1 .. Len(Carried(f.result)) :
                /\ Carried(f.result)[i].fault = "ok"
                /\ Carried(f.result)[i].SerialNo = f.result.SerialNo
                /\ f.result.Signature =
                       Sig(Carried(f.result)[i].key, Canonical(f.result)) )
          => (f.verified = "ok" /\ f.result.Err = Nil)

\* C4: when VerifySignature is called on a context without the marker while
\* no key is cached or the cache is stale, it issues the cert-fetch exactly
\* once, and the key lookup comes only after that cert-fetch has returned
\* without error; otherwise it issues none.  When the cert-fetch fails, or
\* the lookup after it finds no key, the call ends with an error.
C4_RefreshOnceBeforeLookup ==
    \A f \in Frames :
        /\ (f.stale = "unset") => (f.nrefresh = 0 /\ f.verified = "unset")
        /\ (f.stale = "stale" /\ ~f.ctxOnce) => f.nrefresh = 1
        /\ (f.stale = "fresh" \/ f.ctxOnce) => f.nrefresh = 0
        /\ (f.nrefresh = 1 /\ f.verified # "unset") => f.subErr = "nil"
        /\ (f.nrefresh = 1 /\ f.pc = "refresh")
              => (f.subErr = "unset" /\ f.verified = "unset")
        /\ (f.subErr = "err")
              => (Done(f) /\ f.result.Err # Nil /\ f.verified = "unset")
        /\ (f.verified # "unset" /\ f.usedKey = NoKey)
              => (Done(f) /\ f.result.Err # Nil)

\* a call found the cache stale, refreshed once and verified with a key the
\* refresh installed
C4_Witness ==
    \E f \in Frames :
        /\ ~f.ctxOnce /\ ~CertFetch(f) /\ Done(f)
        /\ f.stale = "stale" /\ f.nrefresh = 1 /\ f.subErr = "nil"
        /\ f.verified = "ok" /\ f.result.Err = Nil

\* C5: the cert-fetch sub-call of a refresh carries the marker and issues no
\* cert-fetch of its own, whatever its verification finds, so that at most
\* one sub-call is ever nested in a call.
C5_RecursionDepthOne ==
    /\ Len(stack) <= 2
    /\ \A i \in 1 .. Len(stack) :
          /\ stack[i].ctxOnce = (i > 1)
          /\ stack[i].ctxOnce => (CertFetch(stack[i]) /\ stack[i].nrefresh = 0)
          /\ stack[i].nrefresh <= 1
          /\ (i < Len(stack)) => (stack[i].pc = "refresh")

\* the sub-call found the cache stale at its own verification, failed it,
\* and issued nothing
C5_Witness ==
    /\ Len(stack) = 2
    /\ Done(Top) /\ Top.ctxOnce
    /\ Top.stale = "stale" /\ Top.verified = "fail" /\ Top.nrefresh = 0

\* C6: a call whose response has a status of 300 or more returns at once
\* with the error: it runs neither the install nor the verification, and
\* issues no cert-fetch.
C6_ErrorStatusStops ==
    \A f \in Frames :
        (f.resp # NoResponse /\ f.resp.StatusCode >= StatusMultipleChoices)
          => /\ Done(f)
             /\ f.result.Err # Nil
             /\ f.steps = <<"sign", "send", "receive">>
             /\ f.stale = "unset" /\ f.verified = "unset"
             /\ f.nrefresh = 0 /\ f.subErr = "unset"

\* a cert-fetch was answered with status 300 and returned the error
C6_Witness ==
    \E f \in Frames :
        /\ CertFetch(f) /\ Done(f)
        /\ f.resp # NoResponse /\ f.resp.StatusCode = StatusMultipleChoices
        /\ f.result.Err.kind = "http"

\* C7 as stated, for the bodies that decode: for every response with a
\* status of 300 or more the error of the Result is the error structure with
\* the HTTP status of the response and the code and message of the body; the
\* body does not change the status.
C7_ErrorKeepsHttpStatus ==
    \A f \in Frames :
        ( /\ f.resp # NoResponse
          /\ f.resp.StatusCode >= StatusMultipleChoices
          /\ ~f.resp.readErr /\ f.resp.Body.kind = "object" )
          => f.result.Err = Err("http", f.resp.StatusCode,
                                f.resp.Body.code, f.resp.Body.message)

\* C8 as stated: a call whose request value is nil or a nil pointer of a
\* request type signs an empty body and sends an empty body, whatever the
\* method.
C8_NilRequestEmptyBody ==
    \A f \in Frames :
        f.reqv \in {"nil", "typednil"} =>
            /\ Ran(f, "sign") => (f.reqSign.Body = EmptyBody)
            /\ Ran(f, "send") => (f.wire = EmptyBody)

\* C9 (amended): when the key lookup of VerifySignature, which is reached
\* only if the cert-fetch of the refresh (when one was issued) returned
\* without error, finds no key for the serial of the response, verification
\* fails with the certificate-not-found error; when the cert-fetch fails,
\* verification fails with an error without looking the key up; and a
\* response whose serial has no key in the cache is never accepted.
C9_UnknownSerialRejected ==
    \A f \in Frames :
        /\ (f.verified # "unset" /\ f.usedKey = NoKey)
              => (Done(f) /\ f.result.Err = Fail("notfound"))
        /\ (f.subErr = "err")
              => (Done(f) /\ f.result.Err # Nil /\ f.verified = "unset")
        /\ ( /\ Done(f) /\ Ran(f, "verify")
             /\ get(secrets, f.result.SerialNo) = NoKey )
              => f.result.Err # Nil

\* a call refreshed the certificates without error and still found no key
\* for the serial of its response
C9_Witness ==
    \E f \in Frames :
        /\ Done(f) /\ ~f.ctxOnce
        /\ f.nrefresh = 1 /\ f.subErr = "nil"
        /\ LenAll(secrets) > 0
        /\ f.verified = "fail" /\ f.usedKey = NoKey
        /\ f.result.Err = Fail("notfound")

\* C9 as stated: verification fails with the certificate-not-found error
\* whenever the serial of the response has no key in the cache after the
\* refresh, if there was one.
C9_Original ==
    \A f \in Frames :
        ( /\ Done(f) /\ Ran(f, "verify")
          /\ get(secrets, f.result.SerialNo) = NoKey )
          => f.result.Err = Fail("notfound")

\* C10 as stated: a Wechatpay-Timestamp header that is no decimal signed
\* 64-bit integer makes do (on a response it reads the headers of) and the
\* notification intake fail with the error of the parse, before the install,
\* the verification or the parse of the notification.
C10_BadTimestampRejected ==
    /\ \A f \in Frames :
          ( /\ f.resp # NoResponse
            /\ f.resp.StatusCode < StatusMultipleChoices
            /\ ParseInt(f.resp.Timestamp).err # "nil" )
            => /\ Done(f)
               /\ f.result.Err = Fail("strconv")
               /\ ~Ran(f, "install") /\ ~Ran(f, "verify")
    /\ ( /\ notify.req # NoResponse /\ ~notify.req.readErr
         /\ ParseInt(notify.req.Timestamp).err # "nil" )
          => (~notify.parsed /\ notify.result.Err = Fail("strconv"))

\* a Wechatpay-* header the answer does not carry
MissingHeaders(resp) ==
    {h \in {"Timestamp", "Nonce", "Serial"} :
        resp[h] = (IF h = "Timestamp" THEN <<>> ELSE "")}
        \cup (IF resp.Signature = NoSig THEN {"Signature"} ELSE {})

\* C11 as stated: a response with a status below 300 that lacks a
\* Wechatpay-* header, the timestamp in particular, makes do fail with the
\* error of the header; the call does not go on to the install or to the
\* verification.
C11_MissingHeaderRejected ==
    \A f \in Frames :
        ( /\ f.resp # NoResponse /\ ~f.resp.readErr
          /\ f.resp.StatusCode < StatusMultipleChoices
          /\ MissingHeaders(f.resp) # {} )
          => /\ Done(f)
             /\ f.result.Err = Fail("strconv")
             /\ ~Ran(f, "install") /\ ~Ran(f, "verify")

\* C12 (amended): the endpoints chain Scan to every Result, also to one that
\* carries an error; Scan then returns that error at once: it does not
\* decode the body and leaves the destination untouched.
C12_ScanReturnsTheError ==
    (scanned.invoked /\ scanned.Err # Nil)
      => (scanned.ret = scanned.Err /\ scanned.dest = ZeroDest)

\* Scan was applied to a Result with an error and a body that would decode
C12_Witness ==
    /\ scanned.invoked
    /\ scanned.Err # Nil
    /\ scanned.Body.kind = "object"
    /\ scanned.ret = scanned.Err

\* C12 as stated: Scan is not invoked on a Result that carries an error.
C12_Original ==
    scanned.invoked => scanned.Err = Nil

\* C13: Scan on a Result without error decodes a body that is not empty into
\* the destination (and returns the error of the decoder when it is no
\* JSON); on an empty body it returns nil and leaves the destination
\* untouched, and the body of the Result of a 204 response is always empty,
\* whatever the response carries.
C13_ScanDecodesOrNoop ==
    /\ (scanned.invoked /\ scanned.Err = Nil) =>
          /\ (scanned.Body = EmptyBody)
                => (scanned.ret = Nil /\ scanned.dest = ZeroDest)
          /\ (scanned.Body.kind = "object")
                => /\ scanned.ret = Nil
                   /\ scanned.dest = Dest(TRUE, scanned.Body)
          /\ (scanned.Body.kind = "invalid")
                => (scanned.ret = Fail("json") /\ scanned.dest = ZeroDest)
          /\ (scanned.status = StatusNoContent)
                => (scanned.Body = EmptyBody /\ scanned.ret = Nil)
    /\ \A f \in Frames :
          (f.resp # NoResponse /\ f.resp.StatusCode = StatusNoContent)
            => f.result.Body = EmptyBody

\* Scan was a no-op on the verified Result of a 204 response that carried a
\* body
C13_Witness ==
    /\ scanned.invoked
    /\ scanned.status = StatusNoContent
    /\ scanned.Err = Nil
    /\ scanned.ret = Nil /\ scanned.dest = ZeroDest

\* C14: the processing of a notification runs the envelope parse, then the
\* verification of the signature (which refreshes the certificates first
\* when the cache is stale and looks the key up in the cache the refresh
\* left), then the decryption; the decryption is attempted, and a plaintext
\* delivered, only for a notification whose signature verified.
C14_VerifyBeforeDecrypt ==
    /\ notify.steps \in {<<>>, <<"parse">>, <<"parse", "verify">>,
                         <<"parse", "verify", "decrypt">>}
    /\ (notify.steps # <<>>) => notify.parsed
    /\ (notify.stale = "stale") => notify.nrefresh = 1
    /\ (notify.stale # "stale") => notify.nrefresh = 0
    /\ (notify.verified # "unset")
          => /\ notify.subErr # "err"
             /\ notify.usedKey = get(secrets, notify.result.SerialNo)
    /\ (Len(notify.steps) = 3)
          => /\ notify.verified = "ok"
             /\ notify.usedKey # NoKey
             /\ notify.result.Signature =
                    Sig(notify.usedKey, Canonical(notify.result))
    /\ (notify.plain # "none")
          => (notify.verified = "ok" /\ Len(notify.steps) = 3
              /\ notify.err = Nil)
    /\ (notify.parsed /\ notify.verified # "ok")
          => (notify.err # Nil /\ notify.plain = "none")

\* a notification arrived on an empty cache, the certificates were fetched,
\* the signature verified with a fetched key, and the plaintext delivered
C14_Witness ==
    /\ notify.stale = "stale" /\ notify.nrefresh = 1 /\ notify.subErr = "nil"
    /\ notify.verified = "ok"
    /\ notify.steps = <<"parse", "verify", "decrypt">>
    /\ notify.plain = "trans" /\ notify.err = Nil

\* the request carries a good envelope with a byte of the ciphertext changed
\* under the signature of the good envelope
ChangedUnderSignature(req) ==
    /\ req.Body = NotifyBody("tampered")
    /\ req.Signature.key # NoKey
    /\ req.Signature.plain[3] = NotifyBody("ok")

\* the request carries the changed envelope under a signature made for it
ChangedAndSigned(req) ==
    /\ req.Body = NotifyBody("tampered")
    /\ req.Signature.key # NoKey
    /\ req.Signature.plain[3] = NotifyBody("tampered")

\* C15 (amended): a notification whose ciphertext has a byte changed is
\* never delivered.  Under the signature of the unchanged envelope it fails
\* at the verification, with the error of the signature check when the key
\* of the serial is cached, and the decryption is not attempted; only when
\* the changed envelope carries a signature that verifies does the
\* decryption run and fail with the error of the AEAD authentication.
C15_ChangedCiphertextRejected ==
    (notify.parsed /\ notify.req.Body = NotifyBody("tampered")) =>
        /\ notify.err # Nil /\ notify.plain = "none"
        /\ ChangedUnderSignature(notify.req) =>
              /\ Len(notify.steps) < 3
              /\ (notify.verified # "unset" /\ notify.usedKey # NoKey)
                    => notify.err = Fail("verify")
        /\ (ChangedAndSigned(notify.req) /\ notify.verified = "ok")
              => /\ notify.steps = <<"parse", "verify", "decrypt">>
                 /\ notify.err = Fail("cipher")

\* a changed envelope that was signed again verified and failed to decrypt
C15_Witness ==
    /\ notify.parsed /\ ChangedAndSigned(notify.req)
    /\ notify.verified = "ok"
    /\ notify.err = Fail("cipher")

\* C15 as stated: a valid envelope (one whose signature is by the key cached
\* for its serial) with a byte of the ciphertext changed fails with the
\* error of the AEAD authentication, raised by the decryption.
C15_Original ==
    ( /\ notify.parsed /\ ChangedUnderSignature(notify.req)
      /\ notify.subErr # "err"
      /\ get(secrets, notify.req.Serial) = notify.req.Signature.key )
      => /\ notify.steps = <<"parse", "verify", "decrypt">>
         /\ notify.err = Fail("cipher")

\* the number of times a call ran a step
Times(f, step) == Cardinality({i \in 1 .. Len(f.steps) : f.steps[i] = step})

\* C16: a call of client.Do puts its request on the wire at most once,
\* however the call ends: the count of sends of every call is the count of
\* its send steps and never exceeds one, and what was sent is the request
\* buffer of the call.
C16_SentAtMostOnce ==
    \A f \in Frames :
        /\ f.sent <= 1
        /\ f.sent = Times(f, "send")
        /\ (f.sent = 1) => f.wire = f.reqSign.Body
        /\ Times(f, "receive") <= f.sent

\* a top-level call whose answer failed the signature check after a
\* certificate refresh has returned, having sent its request once
C16_Witness ==
    /\ Len(stack) = 1 /\ Done(Top)
    /\ Top.nrefresh = 1 /\ Top.verified = "fail"
    /\ Top.result.Err # Nil
    /\ Top.sent = 1

\* the call is past the selection of its extra workflows
PastExtra(f) == f.pc \in {"verify", "refresh"} \/ Ran(f, "verify")

\* C17: the install of the certificates runs for a call exactly when its
\* method is GET and its URL equals the configured cert-fetch URL; a call
\* of another method, or of a URL that has the same path and the cert-fetch
\* URL as a prefix, runs no install.
C17_InstallOnlyForCertUrl ==
    \A f \in Frames :
        /\ Ran(f, "install")
              => (f.reqSign.Method = "GET" /\ f.reqSign.Url = CertUrl)
        /\ (PastExtra(f) /\ f.reqSign.Method = "GET"
              /\ f.reqSign.Url = CertUrl) => Ran(f, "install")
        /\ (f.reqSign.Url.Path = CertUrl.Path /\ f.reqSign.Url # CertUrl)
              => ~Ran(f, "install")

\* a GET of the cert-fetch URL with a query received a certificate list
\* and went on to its verification without an install
C17_Witness ==
    \E f \in Frames :
        /\ f.reqSign.Method = "GET" /\ f.reqSign.Url = CertUrlQuery
        /\ PastExtra(f)
        /\ f.result.Body \in CertBodies
        /\ ~Ran(f, "install")

\* the positions of a string in a sequence of strings
Places(b, x) == {i \in 1 .. Len(b) : b[i] = x}

\* C18: the canonical form of a request is METHOD LF PATH[?RAWQUERY] LF
\* TIMESTAMP LF NONCE LF BODY LF.  The host is not written; a URL without
\* a query gives the path followed at once by LF, with no "?"; an empty
\* body still leaves the closing LF; and a second Marshal of the same
\* request gives the same bytes.
C18_CanonicalRequest ==
    (marshal.calls > 0) =>
        LET r == marshal.r
            b == marshal.out.bytes
            n == Len(b)
            t == FormatInt(r.Timestamp)
            q == IF r.Url.RawQuery # "" THEN 2 ELSE 0
        IN  /\ marshal.again = marshal.out
            /\ (marshal.out.err = Nil) <=> r.Url.valid
            /\ (marshal.out.err # Nil) => b = <<>>
            /\ (marshal.out.err = Nil) =>
                 /\ b[1] = r.Method /\ b[2] = LF /\ b[3] = r.Url.Path
                 /\ (q = 2) => (b[4] = "?" /\ b[5] = r.Url.RawQuery)
                 /\ (q = 0) => Places(b, "?") = {}
                 /\ b[4 + q] = LF
                 /\ SubSeq(b, 5 + q, 4 + q + Len(t)) = t
                 /\ b[5 + q + Len(t)] = LF
                 /\ b[6 + q + Len(t)] = r.Nonce
                 /\ b[7 + q + Len(t)] = LF
                 /\ IF r.Body = "" THEN n = 8 + q + Len(t)
                    ELSE n = 9 + q + Len(t) /\ b[n - 1] = r.Body
                 /\ b[n] = LF
                 /\ Cardinality(Places(b, LF)) = 5
                 /\ Places(b, r.Url.Host) = {}

\* a request without a query and with an empty body was marshalled twice
C18_Witness ==
    /\ marshal.calls = 2
    /\ marshal.r.Url = CertUrl /\ marshal.r.Body = ""
    /\ marshal.out.err = Nil
    /\ marshal.out.bytes =
         <<marshal.r.Method, LF, "/v3/certificates", LF, "1", "6", LF,
           marshal.r.Nonce, LF, LF>>

\* the bill is a header line, records, the header of the summary and the
\* summary, every record and the summary decodable
WellFormed(b) ==
    LET n == Len(b.rows)
    IN  /\ n >= 3
        /\ \A k \in 2 .. n - 2 : b.rows[k] = Row(RecordFields(b.d), TRUE)
        /\ b.rows[n - 1].n = SummaryFields(b.d)
        /\ b.rows[n] = Row(SummaryFields(b.d), TRUE)

\* the lines after the first that have the length of a summary
SummaryLines(b) ==
    {k \in 2 .. Len(b.rows) : b.rows[k].n = SummaryFields(b.d)}

\* the least of a set of line numbers, 0 of the empty set
Least(S) == IF S = {} THEN 0 ELSE CHOOSE k \in S : \A j \in S : k <= j

\* C19: the decoding of a header line, N record lines, the header of the
\* summary and the summary line gives the N records, in order, and the
\* summary of the last line; in every decoding that ends without error the
\* first line and the first later line of the summary length are in no
\* record and no summary, and the summary is the second such line.
C19_BillRecordsAndSummary ==
    (bill.pc = "done") =>
        LET n      == Len(bill.rows)
            title  == Least(SummaryLines(bill))
            second == Least(SummaryLines(bill) \ {title})
        IN  /\ WellFormed(bill) =>
                 /\ bill.err = Nil
                 /\ bill.records = [k \in 1 .. n - 3 |-> k + 1]
                 /\ bill.summary = n
            /\ (bill.err = Nil /\ n > 0) =>
                 /\ \A k \in 1 .. Len(bill.records) :
                        bill.records[k] \notin {1, title}
                 /\ bill.summary # 1 /\ bill.summary = second
                 /\ Len(bill.records) =
                        (IF second = 0 THEN n ELSE second - 1) - 1
                            - (IF title = 0 THEN 0 ELSE 1)

\* a bill with two records was decoded
C19_Witness ==
    /\ bill.pc = "done" /\ WellFormed(bill)
    /\ Len(bill.rows) = 5
    /\ bill.records = <<2, 3>> /\ bill.summary = 5
    /\ ~bill.rows[4].numeric

\* the key set a refresh that stores every certificate of its answer
\* leaves
NewAll(old, certs) ==
    installCertificates(Secrets(old, Now), certs, 0, Now).secrets.all

\* C20: a reader that runs while a refresh stores the certificates of its
\* answer, all of which decrypt and parse, finds under the read lock either
\* the key set the refresh began with or the key set the refresh ends
\* with, and never some of the new keys without the others.
C20_ReaderSeesOldOrNew ==
    (reader.pc = "done" /\ installer.pc # "idle"
       /\ AllInstall(installer.certs)) =>
        reader.all \in {installer.old,
                        NewAll(installer.old, installer.certs)}

\* C21: isUpgrade answers true exactly when the deadline is before the
\* current instant or the map holds no key; of a cache with a key and a
\* deadline after the current instant it answers false.  Stated of the
\* answer a reader got from a cache no refresh has touched since.
C21_StaleIffExpiredOrEmpty ==
    (reader.pc # "idle" /\ installer.pc = "idle") =>
        /\ reader.stale <=>
              (secrets.deadline < Now
                 \/ \A k \in Serials : secrets.all[k] = NoKey)
        /\ ((\E k \in Serials : secrets.all[k] # NoKey)
              /\ secrets.deadline > Now) => ~reader.stale
        /\ (reader.pc = "fetch") <=> reader.stale

\* isUpgrade answered false of a cache that holds a key and has its
\* deadline ahead
C21_Witness ==
    /\ reader.pc = "get" /\ installer.pc = "idle"
    /\ ~reader.stale
    /\ secrets.all["S1"] = "K1" /\ secrets.deadline > Now

\* the key of the platform certificate with the serial
PlatformKey(serial) == CarriedKey(<<Cert1, Cert2>>, serial)

\* the certificates the caller's cert-fetch delivered carry the key its
\* answer is signed with, under the serial of the answer
OwnFetchCarries(x) ==
    /\ x.fetched /\ x.err = Nil
    /\ CarriedKey(x.certs, x.answer.serial) = x.answer.key

C23_LockDiscipline ==
    \A c \in Callers :
        /\ (c \in mutex.readers) <=> (callers[c].pc \in SharedPcs)
        /\ (c \in mutex.writer) <=> (callers[c].pc \in ExclusivePcs)
        /\ (callers[c].pc \in IoPcs)
              => c \notin (mutex.readers \cup mutex.writer)

\* one caller waits for the network while the other is inside add with
\* the exclusive lock
C23_Witness ==
    /\ callers["c1"].pc = "fetching"
    /\ callers["c2"].pc = "addDeadline"
    /\ mutex = Mutex({"c2"}, {})

\* C24: no read of the cache falls between the two writes of an add; every
\* serial a caller has added resolves to the added key; and with a positive
\* refresh time the cache is not stale once an add has completed.
C24_AddAtomic ==
    /\ MidAdd => (mutex.readers = {} /\ Cardinality(mutex.writer) = 1)
    /\ \A c \in Callers :
         /\ ~callers[c].torn
         /\ \A i \in 1 .. callers[c].k :
                get(secrets, callers[c].certs[i].SerialNo)
                    = callers[c].certs[i].key
    /\ (refreshTime > 0 /\ ~MidAdd /\ \E c \in Callers : callers[c].k > 0)
          => ~isUpgrade(secrets, Now)

\* both callers have stored certificates at the same time and are done:
\* both serials resolve and the cache is fresh
C24_Witness ==
    /\ \A c \in Callers : callers[c].pc = "done" /\ callers[c].k = 2
    /\ refreshTime > 0
    /\ get(secrets, "S1") = "K1" /\ get(secrets, "S2") = "K2"
    /\ ~isUpgrade(secrets, Now)

\* the install of the call stopped at a certificate that does not decrypt
\* or parse
InstallFailed(f) ==
    /\ Ran(f, "install") /\ Done(f)
    /\ f.result.Err \in {Fail("decrypt"), Fail("pem")}

\* the certificates of a list before the first that does not install
Installable(certs) ==
    {i \in 1 .. Len(certs) : \A j \in 1 .. i : certs[j].fault = "ok"}

\* C25: when the install of a cert-fetch answer stops with an error, the
\* certificates stored before the error stay in the cache: the call ends
\* with the error and every one of them resolves.
C25_PartialInstallStays ==
    \A f \in Frames :
        InstallFailed(f) =>
            \A i \in Installable(Carried(f.result)) :
                get(secrets, Carried(f.result)[i].SerialNo)
                    = Carried(f.result)[i].key

\* a cert-fetch issued on an empty cache stored its first certificate,
\* failed on the second, and the first resolves
C25_Witness ==
    \E f \in Frames :
        /\ InstallFailed(f) /\ f.issuedEmpty
        /\ Installable(Carried(f.result)) = {1}
        /\ get(secrets, "S1") = "K1"

\* the step is the install of the answer to a GET of the cert-fetch URL,
\* or the refresh a notification's verification issued
CertFetchExchange ==
    \/ /\ stack # <<>> /\ Top.pc = "extra"
       /\ Top.reqSign.Method = "GET" /\ Top.reqSign.Url = CertUrl
    \/ /\ stack = <<>> /\ notify'.parsed /\ notify'.nrefresh = 1

\* C26: after the construction the cache holds no key and is stale, and
\* the keys of the cache change only in the install of a cert-fetch
\* answer.
C26_KeysOnlyByCertFetch ==
    /\ LenAll(secrets) = 0 /\ isUpgrade(secrets, Now)
    /\ [][(secrets.all' # secrets.all) => CertFetchExchange]_vars

\* keys have entered the cache by the cert-fetch of a top-level call
C26_Witness ==
    /\ LenAll(secrets) = 2
    /\ \E f \in Frames :
         /\ CertFetch(f) /\ f.issuedEmpty /\ Ran(f, "install")
         /\ f.result.Err = Nil /\ Done(f)

\* the call is a cert-fetch issued on an empty cache that stored the
\* certificates of its answer and verified the answer without a further
\* cert-fetch: the keys of the cache are the keys of the answer
SoleInstaller(f) ==
    /\ Done(f) /\ f.reqSign.Method = "GET" /\ f.reqSign.Url = CertUrl
    /\ f.issuedEmpty /\ Ran(f, "install") /\ Ran(f, "verify")
    /\ f.nrefresh = 0

\* C27: when the verification of a cert-fetch answer fails, the keys
\* stored from that answer are not left in the cache.
C27_UnverifiedKeysNotKept ==
    \A f \in Frames :
        (SoleInstaller(f) /\ f.verified # "ok") => LenAll(secrets) = 0

\* C28: a refresh whose install stopped with an error leaves the cache
\* stale: with a positive refresh interval, isUpgrade() is still true when
\* the refresh issued by a verification has ended with the error.
C28_FailedInstallStaysStale ==
    (Len(stack) > 1 /\ InstallFailed(Top) /\ refreshTime > 0)
        => isUpgrade(secrets, Now)

\* C29: when the refresh issued by a verification has fetched the
\* certificates and returned without error, the cache is fresh at the key
\* lookup that follows; stated for the answers with an empty certificate
\* list and for a negative refresh interval, where no passing of time
\* between the install and the lookup plays a part.
C29_RefreshLeavesFresh ==
    ( /\ Len(stack) > 1 /\ Done(Top) /\ Ran(Top, "install")
      /\ Top.result.Err = Nil
      /\ (refreshTime < 0 \/ Carried(Top.result) = <<>>) )
        => ~isUpgrade(secrets, Now)

\* C30: after construction a cached key is never removed: a serial that
\* resolves before a step resolves after it, whatever the later cert-fetch
\* answers carry.
C30_KeysNeverRemoved ==
    [][\A k \in Serials :
          secrets.all[k] # NoKey => secrets.all'[k] # NoKey]_vars

\* a cert-fetch issued on a non-empty cache stored an answer that lacks the
\* serial S2, and S2 still resolves
C30_Witness ==
    \E f \in Frames :
        /\ CertFetch(f) /\ ~f.issuedEmpty /\ Ran(f, "install") /\ Done(f)
        /\ f.result.Err = Nil
        /\ Carried(f.result) # <<>>
        /\ \A i \in 1 .. Len(Carried(f.result)) :
              Carried(f.result)[i].SerialNo # "S2"
        /\ get(secrets, "S2") = "K2"

====
